---- MODULE Spec2Model ----
(***************************************************************************)
(* A model of diffusionkit's parallel_data_prefetch, resize_image          *)
(* (src/diffusionkit/modules/utils.py) and of the model loader             *)
(* (src/loader.py).                                                        *)
(*                                                                         *)
(* Three independent parts share the module; each has its own              *)
(* specifications and leaves the variables of the other parts untouched:   *)
(*   Spec          one call of parallel_data_prefetch on a list; a func    *)
(*                 may raise in its worker                                 *)
(*   SpecFault     the same, where p.start() and Q.get() may raise too     *)
(*   FairSpecFault SpecFault with every thread and process scheduled       *)
(*   SpecLoad      a sequence of load(name) calls, any step may fail       *)
(*   SpecResize    one call of resize_image                                *)
(***************************************************************************)
EXTENDS Integers, Sequences, FiniteSets, TLC

\* ------------------------------------------------------------------ bounds
\* longest input list given to parallel_data_prefetch
MaxLen == 3
\* largest n_proc
MaxProc == 3
\* largest queue capacity tried.  The code builds Queue(1000); the model
\* tries every capacity 1..MaxQueue so that a full queue is reachable with
\* a handful of workers (2 * n_proc messages against the capacity).
MaxQueue == 2

\* most load(name) calls in one behaviour
MaxLoads == 3
\* largest image or target side, in pixels
MaxDim == 5

None == "None"

\* model names a caller may pass to load
Names == {"a", "b"}

VARIABLES
    \* ---- parallel_data_prefetch: arguments of the call
    data,            \* the input list
    n_proc,
    cpu_intensive,   \* TRUE: mp.Process + mp.Queue, FALSE: Thread + Queue
    use_worker_id,
    maxsize,         \* capacity of Q
    \* ---- parallel_data_prefetch: locals of the coordinator
    pc,              \* position of the coordinator in parallel_data_prefetch
    arguments,       \* [0..m-1 -> chunk], the partitions (line 249)
    Q,               \* the shared queue, oldest message first
    k,               \* sentinels counted by the drain loop
    gather_res,      \* [0..n_proc-1 -> list]
    li,              \* index of the running for-loop over processes
    pending,         \* exception in flight inside try/except/finally
    origExc,         \* first exception surfaced inside the try block (history)
    exc,             \* exception the call raised to its caller
    out,             \* the list the call returned
    \* ---- parallel_data_prefetch: the workers
    wpc,             \* [0..n_proc-1 -> position of worker i]
    wres,            \* [0..n_proc-1 -> what func returned in worker i]
    joined,          \* workers whose join() has returned (history)
    terminated,      \* workers whose terminate() has returned (history)
    received,        \* partitions whose result the coordinator has read (history)
    inverted,        \* TRUE once a result was read after one of a higher partition (history)
    \* ---- loader: module state
    checkpoint_files, \* names that have a checkpoint path (config.checkpoint_files)
    models,          \* the registry: [registered names -> object id]
    heap,            \* the model objects ever constructed, by id 1..Len(heap)
    \* ---- loader: the running call of load(name)
    lpc,             \* "idle", or the step of load the call is about to take
    lname,           \* its argument
    lmodel,          \* its local `model` (object id, 0 before construction)
    outcome,         \* how the last call ended: None, "returned", "raised"
    lret,            \* object id the last call returned
    lexc,            \* exception the last call raised
    effects,         \* steps of the running/last call that touched files or classes (history)
    modelsAtCall,    \* the registry when the running/last call began (history)
    ncalls,          \* calls begun so far (history)
    lastOkCall,      \* [name -> number of the latest call that returned for it] (history)
    \* ---- resize_image: arguments, locals and result
    im,              \* the source image: [width, height]
    width,
    height,
    mode,
    rpc,             \* "call" before resize_image ran, then "returned"
    src_w,
    src_h,
    canvas,          \* size of the returned image: [width, height]
    painted          \* boxes pasted on the canvas, [x0, y0, x1, y1), in paste order

pfArgs == <<data, n_proc, cpu_intensive, use_worker_id, maxsize>>

pfVars == <<pfArgs, pc, arguments,
            Q, k, gather_res, li, pending, origExc, exc, out, wpc, wres, joined,
            terminated, received, inverted>>

ldVars == <<checkpoint_files, models, heap, lpc, lname, lmodel, outcome, lret,
            lexc, effects, modelsAtCall, ncalls, lastOkCall>>

rsVars == <<im, width, height, mode, rpc, src_w, src_h, canvas, painted>>

vars == <<pfVars, ldVars, rsVars>>

\* --------------------------------------------------------------- helpers
Min(a, b) == IF a < b THEN a ELSE b

RECURSIVE ConcatUpTo(_, _)
\* f[0] \o f[1] \o ... \o f[n-1]
ConcatUpTo(f, n) == IF n = 0 THEN <<>> ELSE ConcatUpTo(f, n - 1) \o f[n - 1]

\* The input lists: <<1, 2, ..., L>>, so that any loss, duplication or
\* reordering of elements shows in the output.
Iota(L) == [j \in 1..L |-> j]

\* func(data) / func(data, worker_id=idx) (lines 199-202).  `kw` is the
\* keyword argument list: <<>> or <<worker_id>>.  The model's func is the
\* identity on its chunk; when it is handed a worker id it puts the id (as
\* 100 + id) in front, so the result tells which worker produced it.
FuncApply(part, kw) == [j \in 1..Len(kw) |-> 100 + kw[j]] \o part

\* what worker idx gets from func (lines 199-202)
WorkerResult(part, idx) ==
    IF use_worker_id THEN FuncApply(part, <<idx>>) ELSE FuncApply(part, <<>>)

\* ------------------------------------------------------------ partitioning
\* step (lines 244-248): int(len/n + 1) if len % n != 0 else int(len/n)
Step(L, n) == IF L % n # 0 THEN (L \div n) + 1 ELSE L \div n

\* number of slices produced by range(0, len(data), step) (line 252)
NumChunks(L, step) == (L + step - 1) \div step

\* [data[i: i + step] for i in range(0, len(data), step)] (lines 249-254)
Chunks(d, step) ==
    [c \in 0..(NumChunks(Len(d), step) - 1) |->
        SubSeq(d, c * step + 1, Min(c * step + step, Len(d)))]

\* ------------------------------------------------------------------- queue
ResultMsg(idx, res) == [tag |-> "res", idx |-> idx, res |-> res]
\* The sentinel is the bare string "Done" in the code; `idx` is a history
\* field naming the sender, which the coordinator never reads.
DoneMsg(idx) == [tag |-> "Done", idx |-> idx, res |-> <<>>]

\* a coordinator that counts every message as a sentinel
IsSentinelAnyMessage(msg) == TRUE

\* res == "Done" (line 274)
IsSentinel(msg) == msg.tag = "Done"

\* a coordinator that stores results in arrival order: the first free slot
StoreByArrival(g, idx, res) ==
    LET free == {j \in DOMAIN g : g[j] = <<>>}
        slot == IF free = {} THEN idx ELSE CHOOSE j \in free : \A j2 \in free : j <= j2
    IN [g EXCEPT ![slot] = res]

\* gather_res[res[0]] = res[1] (line 277)
Store(g, idx, res) == [g EXCEPT ![idx] = res]

\* a worker that still sends its sentinel when func raises
OnFuncRaiseSendDone(w, i) == [w EXCEPT ![i] = "put_done"]

\* func raises (lines 199-202): the exception leaves
\* _do_parallel_data_prefetch, the worker ends and puts nothing
OnFuncRaise(w, i) == [w EXCEPT ![i] = "failed"]

\* Q.put blocks while the queue holds maxsize messages
CanPut == Len(Q) < maxsize

Workers == 0..(n_proc - 1)
Finished(i) == wpc[i] \in {"exited", "failed", "terminated"}

\* -------------------------------------------------------------------- Init
\* locals of parallel_data_prefetch at the start of a call
PfLocalsInit ==
    /\ pc = "partition"
    /\ arguments = <<>>
    /\ Q = <<>>
    /\ k = 0
    /\ gather_res = <<>>
    /\ li = 0
    /\ pending = None
    /\ origExc = None
    /\ exc = None
    /\ out = <<>>
    /\ wpc = <<>>
    /\ wres = <<>>
    /\ joined = {}
    /\ terminated = {}
    /\ received = {}
    /\ inverted = FALSE

\* a call parallel_data_prefetch(func, data, n_proc, 'list', cpu_intensive,
\* use_worker_id) about to run
PfInit ==
    /\ data \in {Iota(L) : L \in 0..MaxLen}
    /\ n_proc \in 1..MaxProc
    /\ cpu_intensive \in BOOLEAN
    /\ use_worker_id \in BOOLEAN
    /\ maxsize \in 1..MaxQueue
    /\ PfLocalsInit

\* parallel_data_prefetch is not called
PfUnused ==
    /\ data = <<>>
    /\ n_proc = 1
    /\ cpu_intensive = FALSE
    /\ use_worker_id = FALSE
    /\ maxsize = 1
    /\ PfLocalsInit

\* loader.py as imported: models = dict() (line 8), no call running
LdLocalsInit ==
    /\ models = <<>>
    /\ heap = <<>>
    /\ lpc = "idle"
    /\ lname = None
    /\ lmodel = 0
    /\ outcome = None
    /\ lret = 0
    /\ lexc = None
    /\ effects = {}
    /\ modelsAtCall = <<>>
    /\ ncalls = 0
    /\ lastOkCall = <<>>

LdInit ==
    /\ checkpoint_files \in SUBSET Names
    /\ LdLocalsInit

LdUnused ==
    /\ checkpoint_files = {}
    /\ LdLocalsInit

RsLocalsInit ==
    /\ rpc = "call"
    /\ src_w = 0
    /\ src_h = 0
    /\ canvas = [width |-> 0, height |-> 0]
    /\ painted = <<>>

\* a call resize_image(im, width, height, mode) about to run
RsInit ==
    /\ im \in [width : 1..MaxDim, height : 1..MaxDim]
    /\ width \in 1..MaxDim
    /\ height \in 1..MaxDim
    /\ mode \in {"stretch", "pad", "repeat"}
    /\ RsLocalsInit

RsUnused ==
    /\ im = [width |-> 1, height |-> 1]
    /\ width = 1
    /\ height = 1
    /\ mode = "stretch"
    /\ RsLocalsInit

Init == PfInit /\ LdUnused /\ RsUnused

InitLoad == PfUnused /\ LdInit /\ RsUnused

InitResize == PfUnused /\ LdUnused /\ RsInit

\* ------------------------------------------------------------- coordinator
\* lines 214-254 for a list input with target_data_type = 'list'
Partition ==
    /\ pc = "partition"
    /\ IF Len(data) = 0
       THEN \* step = 0: range(0, 0, 0) raises ValueError (line 252)
            /\ pc' = "raised"
            /\ exc' = "ValueError"
            /\ UNCHANGED arguments
       ELSE /\ arguments' = Chunks(data, Step(Len(data), n_proc))
            /\ pc' = "create"
            /\ UNCHANGED exc
    /\ UNCHANGED <<ldVars, rsVars, pfArgs, Q, k,
                   gather_res, li, pending, origExc, out, wpc, wres, joined,
                   terminated, received, inverted>>

\* lines 255-265: one worker object per i in range(n_proc), args = arguments[i]
CreateWorkers ==
    /\ pc = "create"
    /\ IF \A i \in Workers : i \in DOMAIN arguments
       THEN /\ wpc' = [i \in Workers |-> "created"]
            /\ wres' = [i \in Workers |-> <<>>]
            /\ gather_res' = [i \in Workers |-> <<>>]
            /\ li' = 0
            /\ pc' = "start"
            /\ UNCHANGED exc
       ELSE \* arguments[i] with i >= len(arguments): IndexError (line 257)
            /\ pc' = "raised"
            /\ exc' = "IndexError"
            /\ UNCHANGED <<wpc, wres, gather_res, li>>
    /\ UNCHANGED <<ldVars, rsVars, pfArgs,
                   arguments, Q, k, pending, origExc, out, joined,
                   terminated, received, inverted>>

\* lines 267-270: p.start() for the next worker; after the last one k = 0
StartWorker ==
    /\ pc = "start"
    /\ li < n_proc
    /\ wpc' = [wpc EXCEPT ![li] = "func"]
    /\ li' = li + 1
    /\ IF li + 1 = n_proc
       THEN pc' = "drain" /\ k' = 0
       ELSE UNCHANGED <<pc, k>>
    /\ UNCHANGED <<ldVars, rsVars, pfArgs,
                   arguments, Q, gather_res, pending, origExc, exc, out, wres,
                   joined,
                   terminated, received, inverted>>

\* lines 271-277: one iteration of the drain loop; Q.get() blocks while the
\* queue is empty.  Leaving the loop enters the finally block (line 285).
Get ==
    /\ pc = "drain"
    /\ k < n_proc
    /\ Len(Q) > 0
    /\ LET res == Head(Q)
           k2 == IF IsSentinel(res) THEN k + 1 ELSE k
       IN /\ Q' = Tail(Q)
          /\ k' = k2
          /\ gather_res' = IF IsSentinel(res) THEN gather_res
                           ELSE Store(gather_res, res.idx, res.res)
          /\ received' = IF IsSentinel(res) THEN received
                         ELSE received \cup {res.idx}
          /\ inverted' = IF IsSentinel(res) THEN inverted
                         ELSE inverted \/ \E j \in received : j > res.idx
          /\ IF k2 < n_proc
             THEN UNCHANGED <<pc, li>>
             ELSE pc' = "finally" /\ li' = 0
    /\ UNCHANGED <<ldVars, rsVars, pfArgs,
                   arguments, pending, origExc, exc, out, wpc, wres, joined,
                   terminated>>

\* lines 285-288: p.join() for the next worker.  join() returns once the
\* worker has ended; on a worker that was never started it raises
\* (RuntimeError for a Thread, AssertionError for a Process), which replaces
\* the exception in flight and leaves the finally block at once.
Join ==
    /\ pc = "finally"
    /\ li < n_proc
    /\ IF wpc[li] = "created"
       THEN /\ pc' = "raised"
            /\ exc' = IF cpu_intensive THEN "AssertionError" ELSE "RuntimeError"
            /\ UNCHANGED <<li, joined>>
       ELSE /\ Finished(li)
            /\ joined' = joined \cup {li}
            /\ li' = li + 1
            /\ IF li + 1 < n_proc
               THEN UNCHANGED <<pc, exc>>
               ELSE IF pending = None
                    THEN pc' = "assemble" /\ UNCHANGED exc
                    ELSE pc' = "raised" /\ exc' = pending
    /\ UNCHANGED <<ldVars, rsVars, pfArgs,
                   arguments, Q, k, gather_res, pending, origExc, out, wpc,
                   wres,
                   terminated, received, inverted>>

\* lines 296-300: out.extend(r) for r in gather_res
Assemble ==
    /\ pc = "assemble"
    /\ out' = ConcatUpTo(gather_res, n_proc)
    /\ pc' = "returned"
    /\ UNCHANGED <<ldVars, rsVars, pfArgs,
                   arguments, Q, k, gather_res, li, pending, origExc, exc, wpc,
                   wres, joined,
                   terminated, received, inverted>>

\* ------------------------------------------------------------------ workers
\* lines 199-202: func returns, or raises and ends the worker
WorkerFunc(i) ==
    /\ i \in DOMAIN wpc
    /\ wpc[i] = "func"
    /\ \E ok \in BOOLEAN :
         IF ok
         THEN /\ wres' = [wres EXCEPT ![i] = WorkerResult(arguments[i], i)]
              /\ wpc' = [wpc EXCEPT ![i] = "put_res"]
         ELSE /\ wpc' = OnFuncRaise(wpc, i)
              /\ UNCHANGED wres
    /\ UNCHANGED <<ldVars, rsVars, pfArgs, pc,
                   arguments, Q, k, gather_res, li, pending, origExc, exc, out,
                   joined,
                   terminated, received, inverted>>

\* line 203: Q.put([idx, res])
WorkerPutResult(i) ==
    /\ i \in DOMAIN wpc
    /\ wpc[i] = "put_res"
    /\ CanPut
    /\ Q' = Append(Q, ResultMsg(i, wres[i]))
    /\ wpc' = [wpc EXCEPT ![i] = "put_done"]
    /\ UNCHANGED <<ldVars, rsVars, pfArgs, pc,
                   arguments, k, gather_res, li, pending, origExc, exc, out,
                   wres, joined,
                   terminated, received, inverted>>

\* line 204: Q.put("Done"), then the worker ends
WorkerPutDone(i) ==
    /\ i \in DOMAIN wpc
    /\ wpc[i] = "put_done"
    /\ CanPut
    /\ Q' = Append(Q, DoneMsg(i))
    /\ wpc' = [wpc EXCEPT ![i] = "exited"]
    /\ UNCHANGED <<ldVars, rsVars, pfArgs, pc,
                   arguments, k, gather_res, li, pending, origExc, exc, out,
                   wres, joined,
                   terminated, received, inverted>>

Worker(i) == WorkerFunc(i) \/ WorkerPutResult(i) \/ WorkerPutDone(i)

Coordinator == Partition \/ CreateWorkers \/ StartWorker \/ Get \/ Join \/ Assemble

Next ==
    \/ Partition
    \/ CreateWorkers
    \/ StartWorker
    \/ Get
    \/ Join
    \/ Assemble
    \/ \E i \in 0..(MaxProc - 1) : WorkerFunc(i)
    \/ \E i \in 0..(MaxProc - 1) : WorkerPutResult(i)
    \/ \E i \in 0..(MaxProc - 1) : WorkerPutDone(i)

\* One call in which the only failures are those of func.
Spec == Init /\ [][Next]_vars

\* ------------------------------------------- exceptions in the coordinator
\* p.start() raises inside the try block (line 268): the worker is not
\* started and control enters the except clause (line 279).
StartFails ==
    /\ pc = "start"
    /\ li < n_proc
    /\ origExc' = "StartError"
    /\ pending' = "StartError"
    /\ pc' = "except"
    /\ li' = 0
    /\ UNCHANGED <<ldVars, rsVars, pfArgs, arguments, Q, k, gather_res, exc, out, wpc, wres,
                   joined, terminated, received, inverted>>

\* Q.get() raises inside the drain loop (line 273) after taking a message
\* off the queue (for mp.Queue: the bytes are received, then unpickling
\* fails); control enters the except clause.
GetFails ==
    /\ pc = "drain"
    /\ k < n_proc
    /\ Len(Q) > 0
    /\ Q' = Tail(Q)
    /\ origExc' = "GetError"
    /\ pending' = "GetError"
    /\ pc' = "except"
    /\ li' = 0
    /\ UNCHANGED <<ldVars, rsVars, pfArgs, arguments, k, gather_res, exc, out, wpc, wres,
                   joined, terminated, received, inverted>>

\* p.terminate() (line 282).  threading.Thread has no terminate method, and
\* Process.terminate() on a process that was never started dereferences
\* _popen = None: both raise AttributeError.
TerminateRaises(i) == ~cpu_intensive \/ wpc[i] = "created"

\* lines 279-284: the except clause, one p.terminate() per step, then
\* `raise e`.  An exception raised by terminate() replaces e and leaves the
\* clause; either way the finally block runs next.
Terminate ==
    /\ pc = "except"
    /\ li < n_proc
    /\ IF TerminateRaises(li)
       THEN /\ pending' = "AttributeError"
            /\ pc' = "finally"
            /\ li' = 0
            /\ UNCHANGED <<wpc, terminated>>
       ELSE /\ wpc' = [wpc EXCEPT ![li] = IF Finished(li) THEN @ ELSE "terminated"]
            /\ terminated' = terminated \cup {li}
            /\ IF li + 1 < n_proc
               THEN li' = li + 1 /\ UNCHANGED <<pc, pending>>
               ELSE pc' = "finally" /\ li' = 0 /\ pending' = origExc
    /\ UNCHANGED <<ldVars, rsVars, pfArgs, arguments, Q, k, gather_res, origExc, exc, out,
                   wres, joined, received, inverted>>

NextFault ==
    \/ Partition
    \/ CreateWorkers
    \/ StartWorker
    \/ Get
    \/ Join
    \/ Assemble
    \/ \E i \in 0..(MaxProc - 1) : WorkerFunc(i)
    \/ \E i \in 0..(MaxProc - 1) : WorkerPutResult(i)
    \/ \E i \in 0..(MaxProc - 1) : WorkerPutDone(i)
    \/ StartFails
    \/ GetFails
    \/ Terminate

\* One call in which p.start() or Q.get() may also raise.
SpecFault == Init /\ [][NextFault]_vars

\* Every live thread or process is scheduled: the coordinator and each worker
\* take their next step when it stays possible.  Exceptions are not forced.
FairSpecFault ==
    /\ SpecFault
    /\ WF_vars(Coordinator \/ Terminate)
    /\ \A i \in 0..(MaxProc - 1) : WF_vars(Worker(i))

\* ================================================================== loader
\* 'no checkpoint file path specified for model "%s"' % name (line 12)
NoCheckpointError(name) == <<"no checkpoint file path specified for model", name>>

\* a load that skips the lookup in the checkpoint-file table
NameKnownAlways(name) == TRUE

\* name in checkpoint_files (line 11)
NameKnown(name) == name \in checkpoint_files

\* a loader that registers the model right after constructing it
NextStepStoreEarly(step) ==
    CASE step = "check"     -> "config"
      [] step = "config"    -> "resolve"
      [] step = "resolve"   -> "construct"
      [] step = "construct" -> "store"
      [] step = "store"     -> "ckpt"
      [] step = "ckpt"      -> "state"
      [] step = "state"     -> "half"
      [] step = "half"      -> "cuda"
      [] step = "cuda"      -> "eval"
      [] step = "eval"      -> "return"

\* the order of the statements of load (lines 11-31)
NextStep(step) ==
    CASE step = "check"     -> "config"
      [] step = "config"    -> "resolve"
      [] step = "resolve"   -> "construct"
      [] step = "construct" -> "ckpt"
      [] step = "ckpt"      -> "state"
      [] step = "state"     -> "half"
      [] step = "half"      -> "cuda"
      [] step = "cuda"      -> "eval"
      [] step = "eval"      -> "store"
      [] step = "store"     -> "return"

\* a registry that keeps the first model registered under a name
RegisterIfAbsent(m, name, model) ==
    [n \in DOMAIN m \cup {name} |-> IF n \in DOMAIN m THEN m[n] ELSE model]

\* models[name] = model (line 29)
Register(m, name, model) ==
    [n \in DOMAIN m \cup {name} |-> IF n = name THEN model ELSE m[n]]

\* a freshly constructed model object: full precision, on the host, in
\* training mode, no checkpoint state; `call` is the call that built it
NewModel(call) ==
    [call |-> call, loaded |-> FALSE, half |-> FALSE, cuda |-> FALSE,
     training |-> TRUE]

\* the statement at `step` raised `e`: the call ends, nothing else happens
Raise(e) ==
    /\ lpc' = "idle"
    /\ outcome' = "raised"
    /\ lexc' = e

ldFrame == <<pfVars, rsVars, checkpoint_files>>

\* a caller invokes load(name)
Call(name) ==
    /\ lpc = "idle"
    /\ ncalls < MaxLoads
    /\ ncalls' = ncalls + 1
    /\ lname' = name
    /\ lpc' = "check"
    /\ lmodel' = 0
    /\ outcome' = None
    /\ lret' = 0
    /\ lexc' = None
    /\ effects' = {}
    /\ modelsAtCall' = models
    /\ UNCHANGED <<ldFrame, models, heap, lastOkCall>>

\* lines 11-14
Check ==
    /\ lpc = "check"
    /\ IF NameKnown(lname)
       THEN lpc' = NextStep("check") /\ UNCHANGED <<outcome, lexc>>
       ELSE Raise(NoCheckpointError(lname))
    /\ UNCHANGED <<ldFrame, models, heap, lname, lmodel, lret, effects,
                   modelsAtCall, ncalls, lastOkCall>>

\* lines 15-17: OmegaConf.load of configs/<name>.yaml; the file may be
\* missing or malformed
LoadConfig ==
    /\ lpc = "config"
    /\ effects' = effects \cup {"config"}
    /\ \E ok \in BOOLEAN :
         IF ok THEN lpc' = NextStep("config") /\ UNCHANGED <<outcome, lexc>>
         ELSE Raise("ConfigError")
    /\ UNCHANGED <<ldFrame, models, heap, lname, lmodel, lret, modelsAtCall,
                   ncalls, lastOkCall>>

\* lines 19-21: split config.model.target, import the module, get the class
Resolve ==
    /\ lpc = "resolve"
    /\ effects' = effects \cup {"resolve"}
    /\ \E ok \in BOOLEAN :
         IF ok THEN lpc' = NextStep("resolve") /\ UNCHANGED <<outcome, lexc>>
         ELSE Raise("ImportError")
    /\ UNCHANGED <<ldFrame, models, heap, lname, lmodel, lret, modelsAtCall,
                   ncalls, lastOkCall>>

\* line 22: model = cls(**params)
Construct ==
    /\ lpc = "construct"
    /\ effects' = effects \cup {"construct"}
    /\ \E ok \in BOOLEAN :
         IF ok
         THEN /\ heap' = Append(heap, NewModel(ncalls))
              /\ lmodel' = Len(heap) + 1
              /\ lpc' = NextStep("construct")
              /\ UNCHANGED <<outcome, lexc>>
         ELSE /\ Raise("ConstructError")
              /\ UNCHANGED <<heap, lmodel>>
    /\ UNCHANGED <<ldFrame, models, lname, lret, modelsAtCall, ncalls,
                   lastOkCall>>

\* line 23: checkpoint = torch.load(checkpoint_path, map_location='cpu')
TorchLoad ==
    /\ lpc = "ckpt"
    /\ effects' = effects \cup {"ckpt"}
    /\ \E ok \in BOOLEAN :
         IF ok THEN lpc' = NextStep("ckpt") /\ UNCHANGED <<outcome, lexc>>
         ELSE Raise("CheckpointError")
    /\ UNCHANGED <<ldFrame, models, heap, lname, lmodel, lret, modelsAtCall,
                   ncalls, lastOkCall>>

\* line 25: model.load_state_dict(checkpoint['state_dict'], strict=False);
\* a checkpoint without 'state_dict' or with tensors of another shape raises
LoadStateDict ==
    /\ lpc = "state"
    /\ \E ok \in BOOLEAN :
         IF ok
         THEN /\ heap' = [heap EXCEPT ![lmodel].loaded = TRUE]
              /\ lpc' = NextStep("state")
              /\ UNCHANGED <<outcome, lexc>>
         ELSE /\ Raise("StateDictError")
              /\ UNCHANGED heap
    /\ UNCHANGED <<ldFrame, models, lname, lmodel, lret, effects, modelsAtCall,
                   ncalls, lastOkCall>>

\* line 26: model.half() converts the object in place
Half ==
    /\ lpc = "half"
    /\ \E ok \in BOOLEAN :
         IF ok
         THEN /\ heap' = [heap EXCEPT ![lmodel].half = TRUE]
              /\ lpc' = NextStep("half")
              /\ UNCHANGED <<outcome, lexc>>
         ELSE /\ Raise("HalfError")
              /\ UNCHANGED heap
    /\ UNCHANGED <<ldFrame, models, lname, lmodel, lret, effects, modelsAtCall,
                   ncalls, lastOkCall>>

\* line 27: model.cuda() moves the object in place; raises without a device
Cuda ==
    /\ lpc = "cuda"
    /\ \E ok \in BOOLEAN :
         IF ok
         THEN /\ heap' = [heap EXCEPT ![lmodel].cuda = TRUE]
              /\ lpc' = NextStep("cuda")
              /\ UNCHANGED <<outcome, lexc>>
         ELSE /\ Raise("CudaError")
              /\ UNCHANGED heap
    /\ UNCHANGED <<ldFrame, models, lname, lmodel, lret, effects, modelsAtCall,
                   ncalls, lastOkCall>>

\* line 28: model.eval()
Eval ==
    /\ lpc = "eval"
    /\ heap' = [heap EXCEPT ![lmodel].training = FALSE]
    /\ lpc' = NextStep("eval")
    /\ UNCHANGED <<ldFrame, models, lname, lmodel, outcome, lret, lexc, effects,
                   modelsAtCall, ncalls, lastOkCall>>

\* line 29: models[name] = model
StoreModel ==
    /\ lpc = "store"
    /\ models' = Register(models, lname, lmodel)
    /\ lpc' = NextStep("store")
    /\ UNCHANGED <<ldFrame, heap, lname, lmodel, outcome, lret, lexc, effects,
                   modelsAtCall, ncalls, lastOkCall>>

\* line 31: return model
Return ==
    /\ lpc = "return"
    /\ lpc' = "idle"
    /\ outcome' = "returned"
    /\ lret' = lmodel
    /\ lastOkCall' = Register(lastOkCall, lname, ncalls)
    /\ UNCHANGED <<ldFrame, models, heap, lname, lmodel, lexc, effects,
                   modelsAtCall, ncalls>>

NextLoad ==
    \/ \E name \in Names : Call(name)
    \/ Check
    \/ LoadConfig
    \/ Resolve
    \/ Construct
    \/ TorchLoad
    \/ LoadStateDict
    \/ Half
    \/ Cuda
    \/ Eval
    \/ StoreModel
    \/ Return

\* a process that calls load up to MaxLoads times, one call after another
SpecLoad == InitLoad /\ [][NextLoad]_vars

\* ============================================================ resize_image
\* ratio < src_ratio, with ratio = width / height and src_ratio = im.width /
\* im.height (lines 84-85, 94-95).  The code compares the two float
\* quotients; for sides this small the comparison agrees with the exact one.
RatioLess(w, h, iw, ih) == w * ih < iw * h

Box(x0, y0, w, h) == [x0 |-> x0, y0 |-> y0, x1 |-> x0 + w, y1 |-> y0 + h]

\* Image.resize raises ValueError for a target size with a side < 1
ResizeRaises(w, h) == w < 1 \/ h < 1

\* lines 87-88: the resized size in 'pad' mode
PadSize(i, w, h) ==
    [width  |-> IF RatioLess(i.width, i.height, w, h) THEN w
                ELSE (i.width * h) \div i.height,
     height |-> IF ~RatioLess(i.width, i.height, w, h) THEN h
                ELSE (i.height * w) \div i.width]

\* lines 97-98: the resized size in 'repeat' mode
RepeatSize(i, w, h) ==
    [width  |-> IF RatioLess(w, h, i.width, i.height) THEN w
                ELSE (i.width * h) \div i.height,
     height |-> IF ~RatioLess(w, h, i.width, i.height) THEN h
                ELSE (i.height * w) \div i.width]

\* box of res.paste(resized, box=(width // 2 - src_w // 2, height // 2 -
\* src_h // 2)) (lines 92, 102)
CentreBox(w, h, sw, sh) == Box(w \div 2 - sw \div 2, h \div 2 - sh \div 2, sw, sh)

\* lines 104-111: the two fill strips of 'repeat' mode, as <<size, boxes>>
FillStrips(i, w, h, sw, sh) ==
    IF RatioLess(w, h, i.width, i.height)
    THEN LET fill_height == h \div 2 - sh \div 2
         IN [size  |-> [width |-> w, height |-> fill_height],
             boxes |-> <<Box(0, 0, w, fill_height),
                         Box(0, fill_height + sh, w, fill_height)>>]
    ELSE IF RatioLess(i.width, i.height, w, h)
    THEN LET fill_width == w \div 2 - sw \div 2
         IN [size  |-> [width |-> fill_width, height |-> h],
             boxes |-> <<Box(0, 0, fill_width, h),
                         Box(fill_width + sw, 0, fill_width, h)>>]
    ELSE [size |-> [width |-> w, height |-> h], boxes |-> <<>>]

rsFrame == <<pfVars, ldVars, im, width, height, mode>>

\* resize_image(im, width, height, mode) (lines 75-113), start to end
Resize ==
    /\ rpc = "call"
    /\ IF im.width = width /\ im.height = height
       THEN \* lines 76-77: return im
            /\ rpc' = "returned"
            /\ canvas' = im
            /\ painted' = <<Box(0, 0, im.width, im.height)>>
            /\ UNCHANGED <<src_w, src_h>>
       ELSE IF mode = "stretch"
       THEN \* line 82
            /\ rpc' = "returned"
            /\ canvas' = [width |-> width, height |-> height]
            /\ painted' = <<Box(0, 0, width, height)>>
            /\ UNCHANGED <<src_w, src_h>>
       ELSE LET size == IF mode = "pad" THEN PadSize(im, width, height)
                        ELSE RepeatSize(im, width, height)
                strips == IF mode = "pad"
                          THEN [size |-> [width |-> width, height |-> height],
                                boxes |-> <<>>]
                          ELSE FillStrips(im, width, height, size.width, size.height)
            IN /\ src_w' = size.width
               /\ src_h' = size.height
               /\ IF \/ ResizeRaises(size.width, size.height)
                     \/ (Len(strips.boxes) > 0
                           /\ ResizeRaises(strips.size.width, strips.size.height))
                  THEN /\ rpc' = "raised"
                       /\ UNCHANGED <<canvas, painted>>
                  ELSE /\ rpc' = "returned"
                       /\ canvas' = [width |-> width, height |-> height]
                       /\ painted' =
                            <<CentreBox(width, height, size.width, size.height)>>
                            \o strips.boxes
    /\ UNCHANGED rsFrame

NextResize == Resize

SpecResize == InitResize /\ [][NextResize]_vars

\* ========================================================== claims: prefetch
\* what func returns for partition i of the call
Expected(i) == WorkerResult(arguments[i], i)

\* a put that cannot proceed: the worker waits on the full queue
Blocked(i) == i \in DOMAIN wpc /\ wpc[i] \in {"put_res", "put_done"} /\ ~CanPut

AllStarted == pc \in {"drain", "finally", "assemble", "returned"}

\* C1: when the call returns a list, it is func(chunk_0) \o ... \o
\* func(chunk_{n_proc-1}) in partition-index order whatever the order in
\* which the results arrived on the queue; with the identity func (no worker
\* id) the output is the input list.
C1_OutputInPartitionOrder ==
    pc = "returned" =>
        /\ out = ConcatUpTo([i \in Workers |-> Expected(i)], n_proc)
        /\ ~use_worker_id => out = data

\* C1 witness: a returned call of three workers in which a result arrived
\* after the result of a higher partition.
C1_Witness ==
    /\ pc = "returned"
    /\ n_proc = 3
    /\ inverted
    /\ out = data

\* C6 (as claimed): for every list of length >= 1 the slicing yields exactly
\* n_proc chunks whose concatenation is the input.
C6_ExactlyNProcChunks ==
    (pc # "partition" /\ Len(data) >= 1) =>
        /\ DOMAIN arguments = 0..(n_proc - 1)
        /\ ConcatUpTo(arguments, n_proc) = data

\* C7 (as claimed): once an exception has surfaced while starting workers or
\* draining, the call ends by raising that exception, after every worker
\* was terminated and joined, and returns nothing.
C7_CleanupThenOriginalException ==
    (origExc # None /\ pc \in {"raised", "returned"}) =>
        /\ pc = "raised"
        /\ exc = origExc
        /\ terminated = Workers
        /\ joined = Workers
        /\ out = <<>>

C9_SentinelsGateTheReturn ==
    /\ pc \in {"finally", "assemble", "returned"} =>
          /\ k = n_proc
          /\ \A i \in Workers : wpc[i] = "exited"
    /\ \A p \in 1..Len(Q) :
          IsSentinel(Q[p]) =>
             /\ wpc[Q[p].idx] = "exited"
             /\ \/ \E q \in 1..(p - 1) : Q[q] = ResultMsg(Q[p].idx, Expected(Q[p].idx))
                \/ Q[p].idx \in received
    /\ \A i \in DOMAIN wpc :
          wpc[i] = "failed" =>
             /\ pc \notin {"finally", "assemble", "returned", "raised"}
             /\ k < n_proc
             /\ \A p \in 1..Len(Q) : Q[p].idx # i
             /\ i \notin received

\* C9 witness: a func has raised while every other worker is done and the
\* queue is drained: the coordinator waits in Q.get() for a sentinel that
\* never comes.
C9_Witness ==
    /\ pc = "drain"
    /\ n_proc >= 2
    /\ Q = <<>>
    /\ k = n_proc - 1
    /\ \E i \in Workers :
          /\ wpc[i] = "failed"
          /\ \A j \in Workers \ {i} : wpc[j] = "exited"

\* ============================================================ claims: loader
LoadSteps == {"config", "resolve", "construct", "ckpt"}

CallEnded == lpc = "idle" /\ ncalls > 0

\* C2: once load(name) is past its first statement with a name that has no
\* checkpoint path, the call has ended with the 'no checkpoint file path
\* specified' error for that name, has read no configuration file, resolved
\* no class, constructed nothing, read no checkpoint, and the registry is
\* as it was when the call began.
C2_UnknownNameFailsFirst ==
    (lname # None /\ lname \notin checkpoint_files /\ lpc # "check") =>
        /\ lpc = "idle"
        /\ outcome = "raised"
        /\ lexc = NoCheckpointError(lname)
        /\ effects = {}
        /\ lmodel = 0
        /\ models = modelsAtCall

\* C2 witness: a load of a name without checkpoint path has ended, after an
\* earlier load had registered a model.
C2_Witness ==
    /\ CallEnded
    /\ lname \notin checkpoint_files
    /\ lexc = NoCheckpointError(lname)
    /\ DOMAIN models # {}

\* the call for name n that last got through load: the running call once it
\* has stored its model (only `return model` is left), else the latest call
\* that returned
LatestLoad(n) == IF lpc = "return" /\ n = lname THEN ncalls ELSE lastOkCall[n]

\* C3: the registry holds, for each name some load has returned for, the
\* object constructed by the latest such load; a load that returned did the
\* whole rebuild (configuration read, class resolution, construction,
\* checkpoint read) and returned the object it registered; and no step
\* removes a name from the registry.
C3_LastLoadWins ==
    /\ [](/\ \A n \in DOMAIN lastOkCall :
               /\ n \in DOMAIN models
               /\ heap[models[n]].call = LatestLoad(n)
          /\ (CallEnded /\ outcome = "returned") =>
               /\ effects = LoadSteps
               /\ heap[lret].call = ncalls
               /\ models[lname] = lret)
    /\ [][DOMAIN models \subseteq DOMAIN models']_vars

\* C3 witness: a second load of an already registered name has returned a
\* new object, which replaced the first one in the registry.
C3_Witness ==
    /\ CallEnded
    /\ outcome = "returned"
    /\ lname \in DOMAIN modelsAtCall
    /\ models[lname] # modelsAtCall[lname]
    /\ ncalls = lastOkCall[lname]

\* C10: every registered model has its checkpoint state applied, is in half
\* precision, on the accelerator and in inference mode; and until the
\* running call reaches its return, and after a call that raised, the
\* registry is as it was when the call began.
C10_RegistryHoldsReadyModels ==
    /\ \A n \in DOMAIN models :
          LET m == heap[models[n]]
          IN m.loaded /\ m.half /\ m.cuda /\ ~m.training
    /\ (lpc \notin {"idle", "return"} \/ outcome = "raised") => models = modelsAtCall

\* C10 witness: a load has failed while moving its model to the accelerator,
\* after an earlier load had registered a model under the same name.
C10_Witness ==
    /\ CallEnded
    /\ outcome = "raised"
    /\ lexc = "CudaError"
    /\ lname \in DOMAIN models
    /\ heap[lmodel].half /\ ~heap[lmodel].cuda

\* ============================================================ claims: resize
Covered(x, y) ==
    \E b \in 1..Len(painted) :
        /\ painted[b].x0 <= x /\ x < painted[b].x1
        /\ painted[b].y0 <= y /\ y < painted[b].y1

Resampled == ~(im.width = width /\ im.height = height)

\* C4 (as claimed): in 'pad' mode the resized image fits in the target on
\* both axes and the canvas is exactly width x height.
C4_PadFitsTarget ==
    (rpc # "call" /\ mode = "pad" /\ Resampled) =>
        /\ src_w <= width
        /\ src_h <= height
        /\ rpc = "returned" => canvas = [width |-> width, height |-> height]

\* C5 (as claimed): in 'repeat' mode the centred image and the two fill
\* strips cover every pixel column and row of the width x height canvas.
C5_RepeatCoversCanvas ==
    (rpc = "returned" /\ mode = "repeat") =>
        \A x \in 0..(canvas.width - 1) : \A y \in 0..(canvas.height - 1) :
            Covered(x, y)

====
